---- MODULE Spec2Model ----
(***************************************************************************)
(* Round-by-round model of the two schedule simulators of Swing_HPC:       *)
(*   - torus_round_tables.py : ring reduce-scatter followed by allgather,  *)
(*     with the per-process holdings ledgers and contributor sets;         *)
(*   - swing_heatmap.py      : Swing partner selection (rho, pi,           *)
(*     swing_steps) and the volume matrix built by build_matrix.           *)
(* Plotting (render_step, draw_ring, draw_heatmap) is an external sink:    *)
(* the model keeps only the rows handed to it.                             *)
(***************************************************************************)
EXTENDS Integers, Sequences, FiniteSets, TLC

VARIABLES
    pc,             \* position of the running script
    processes,      \* args.processes   (num_procs / world_size)
    vector_size,    \* args.vector_size
    variant,        \* variant argument of build_matrix
    error,          \* name of the exception that ended the run, "" if none
    \* ---- torus_round_tables.py
    chunk_bytes,    \* vector_size // num_procs
    holdings,       \* reduce-scatter ledgers; main's `holdings`, allgather's `initial_holdings`
    last_received,  \* one dict object: reduce-scatter's, main's `last_recv`, allgather's parameter
    ag_holdings,    \* allgather's local `holdings` (deep copy of initial_holdings)
    step,           \* round counter of the running phase
    ri,             \* position of the inner loop over processes / rows
    transmissions,  \* dest -> [sender, chunk_idx, chunk] of the running round
    rows,           \* the rows of the running round
    rendered,       \* the (phase, round, rows) triples handed to render_step
    round_start,    \* history: ledgers and last_received when the running round began
    phase1,         \* history: holdings and last_received when simulate_allgather was called
    \* ---- swing_heatmap.py
    matrix,         \* volume matrix [shape, cells], cells in units of 1/Scale byte
    steps,          \* swing_steps(world_size)
    s               \* round counter of build_matrix's running loop

vars == <<pc, processes, vector_size, variant, error, chunk_bytes, holdings,
          last_received, ag_holdings, step, ri, transmissions, rows, rendered,
          round_start, phase1, matrix, steps, s>>

ringVars == <<chunk_bytes, holdings, last_received, ag_holdings, step, ri,
              transmissions, rows, rendered, round_start, phase1>>

swingVars == <<matrix, steps, s>>

inputVars == <<processes, vector_size, variant>>

(***************************************************************************)
(* Bounds of the explored inputs.                                          *)
(***************************************************************************)
MaxProcs == 8
MaxVec == 8
MaxNeg == 1
MaxRound == 5

ProcessCounts == (0 - MaxNeg)..MaxProcs
VectorSizes == (0 - MaxNeg)..MaxVec
Variants == {"bandwidth", "latency", "lantency"}

(***************************************************************************)
(* Python helpers.                                                         *)
(***************************************************************************)
\* range(n): empty for n <= 0
Range(n) == 0..(n - 1)

\* a // b on Python ints (floor division), b # 0
FloorDiv(a, b) == IF b > 0 THEN a \div b ELSE (0 - a) \div (0 - b)

\* a % b on Python ints, b # 0: the result has the sign of b
PyMod(a, b) == IF b > 0 THEN a % b ELSE 0 - ((0 - a) % (0 - b))

\* a & b on non-negative Python ints
RECURSIVE BitAnd(_, _)
BitAnd(a, b) ==
    IF a = 0 \/ b = 0 THEN 0
    ELSE (a % 2) * (b % 2) + 2 * BitAnd(a \div 2, b \div 2)

\* int(math.log2(n)) for n >= 1 (math.log2 is exact on the powers of two and
\* lies strictly between the neighbouring integers otherwise, for every n a
\* matrix can be allocated for)
RECURSIVE IntLog2(_)
IntLog2(n) == IF n < 2 THEN 0 ELSE 1 + IntLog2(n \div 2)

\* sorted(set) as a sequence
RECURSIVE Sorted(_)
Sorted(S) ==
    IF S = {} THEN <<>>
    ELSE LET m == CHOOSE x \in S : \A y \in S : x <= y
         IN <<m>> \o Sorted(S \ {m})

EmptyDict == <<>>

\* a name no value is bound to yet
Unbound == <<>>

\* d with key k bound to v (d[k] = v)
DictSet(d, k, v) == [x \in (DOMAIN d) \cup {k} |-> IF x = k THEN v ELSE d[x]]

\* d without key k (the dict left by d.pop(k))
DictPop(d, k) == [x \in (DOMAIN d) \ {k} |-> d[x]]

(***************************************************************************)
(* torus_round_tables.py                                                   *)
(***************************************************************************)
\* "C{idx}[P0+P1]" : the index and the contributors in ascending order
format_chunk(chunk) == <<"C", chunk.idx, Sorted(chunk.contributors)>>

\* one format_chunk per ledger entry, ordered by key
summarize_holdings(h) == [i \in 1..Cardinality(DOMAIN h) |-> format_chunk(h[Sorted(DOMAIN h)[i]])]

\* f"C{idx}"
ChunkName(idx) == <<"C", idx>>

\* a ledger deep-copied entry by entry
DeepCopyHoldings(h) == [r \in DOMAIN h |-> [idx \in DOMAIN h[r] |-> h[r][idx]]]

Init ==
    /\ pc \in {"main_torus", "build_matrix"}
    /\ processes \in ProcessCounts
    /\ vector_size \in VectorSizes
    /\ variant \in IF pc = "build_matrix" THEN Variants ELSE {"n/a"}
    /\ error = ""
    /\ chunk_bytes = 0
    /\ holdings = EmptyDict
    /\ last_received = EmptyDict
    /\ ag_holdings = EmptyDict
    /\ step = 0
    /\ ri = 0
    /\ transmissions = EmptyDict
    /\ rows = <<>>
    /\ rendered = <<>>
    /\ round_start = [holdings |-> EmptyDict, last_received |-> EmptyDict]
    /\ phase1 = [holdings |-> EmptyDict, last_received |-> EmptyDict]
    /\ matrix = Unbound
    /\ steps = 0
    /\ s = 0

\* mutant: the round loop entered for range(num_procs) instead of
\* range(num_procs - 1)
RSCallExtraRound ==
    /\ pc = "main_torus"
    /\ IF processes = 0
       THEN /\ pc' = "error"
            /\ error' = "ZeroDivisionError"
            /\ UNCHANGED <<ringVars>>
       ELSE /\ chunk_bytes' = FloorDiv(vector_size, processes)
            /\ holdings' = [r \in Range(processes) |->
                              DictSet(EmptyDict, r, [idx |-> r, contributors |-> {r}])]
            /\ last_received' = [r \in Range(processes) |-> r]
            /\ step' = 0
            /\ ri' = 0
            /\ transmissions' = EmptyDict
            /\ rows' = <<>>
            /\ round_start' = [holdings |-> holdings', last_received |-> last_received']
            /\ pc' = IF 0 < processes THEN "rs_send" ELSE "rs_return"
            /\ UNCHANGED <<error, ag_holdings, rendered, phase1>>
    /\ UNCHANGED <<inputVars, swingVars>>

\* simulate_reduce_scatter, lines 165-167 and the entry of the round loop
RSCall ==
    /\ pc = "main_torus"
    /\ IF processes = 0
       THEN /\ pc' = "error"
            /\ error' = "ZeroDivisionError"
            /\ UNCHANGED <<ringVars>>
       ELSE /\ chunk_bytes' = FloorDiv(vector_size, processes)
            /\ holdings' = [r \in Range(processes) |->
                              DictSet(EmptyDict, r, [idx |-> r, contributors |-> {r}])]
            /\ last_received' = [r \in Range(processes) |-> r]
            /\ step' = 0
            /\ ri' = 0
            /\ transmissions' = EmptyDict
            /\ rows' = <<>>
            /\ round_start' = [holdings |-> holdings', last_received |-> last_received']
            /\ pc' = IF 0 < processes - 1 THEN "rs_send" ELSE "rs_return"
            /\ UNCHANGED <<error, ag_holdings, rendered, phase1>>
    /\ UNCHANGED <<inputVars, swingVars>>

\* the chunk index process r sends in reduce-scatter round st
RSSendIdx(r, st) == PyMod(r - st, processes)

\* mutant: the receive index computed without the receiver's rank
RSRecvIdxNoRank(r, st) == PyMod(0 - st - 1, processes)

\* mutant: the receive index one too high
RSRecvIdxOffByOne(r, st) == PyMod(r - st, processes)

\* the ledger key under which process r stores what it receives in round st
RSRecvIdx(r, st) == PyMod(r - st - 1, processes)

\* mutant: the receiver forgets to add itself
MergeContributorsSkipped(contributors, r) == contributors

\* mutant: the receiver overwrites the contributors with itself
MergeContributorsReset(contributors, r) == {r}

\* contributors after the receiver's merge: chunk["contributors"].add(r)
MergeContributors(contributors, r) == contributors \cup {r}

\* one iteration of the send loop of reduce-scatter, lines 173-192
RSSend ==
    /\ pc = "rs_send"
    /\ LET r == ri
           send_to == PyMod(r + 1, processes)
           recv_from == PyMod(r - 1 + processes, processes)
           send_idx == RSSendIdx(r, step)
       IN IF send_idx \notin DOMAIN holdings[r]
          THEN /\ pc' = "error"
               /\ error' = "KeyError"
               /\ UNCHANGED <<holdings, transmissions, rows, ri>>
          ELSE LET chunk == holdings[r][send_idx]
               IN /\ holdings' = [holdings EXCEPT ![r] = DictPop(@, send_idx)]
                  /\ transmissions' = DictSet(transmissions, send_to,
                         [sender |-> r, chunk_idx |-> send_idx, chunk |-> chunk])
                  /\ rows' = Append(rows,
                         [process |-> r, send_to |-> send_to, recv_from |-> recv_from,
                          send_chunk |-> ChunkName(send_idx),
                          send_label |-> format_chunk(chunk),
                          bytes_sent |-> chunk_bytes])
                  /\ ri' = IF ri + 1 < processes THEN ri + 1 ELSE 0
                  /\ pc' = IF ri + 1 < processes THEN "rs_send" ELSE "rs_recv"
                  /\ error' = error
    /\ UNCHANGED <<inputVars, swingVars, chunk_bytes, last_received, ag_holdings,
                   step, rendered, round_start, phase1>>

\* one iteration of the receive loop of reduce-scatter, lines 194-210
RSRecv ==
    /\ pc = "rs_recv"
    /\ LET row == rows[ri + 1]
           r == row.process
           recv_idx == RSRecvIdx(r, step)
       IN IF r \notin DOMAIN transmissions
          THEN /\ pc' = "error"
               /\ error' = "KeyError"
               /\ UNCHANGED <<holdings, last_received, transmissions, rows, ri>>
          ELSE LET incoming == transmissions[r]
                   \* the chunk object after chunk["contributors"].add(r)
                   chunk == [incoming.chunk EXCEPT
                                !.contributors = MergeContributors(@, r)]
               IN \* transmissions[r]["chunk"] is the same object as the ledger entry
                  /\ transmissions' = [transmissions EXCEPT ![r].chunk = chunk]
                  /\ holdings' = [holdings EXCEPT ![r] = DictSet(@, recv_idx, chunk)]
                  /\ last_received' = [last_received EXCEPT ![r] = recv_idx]
                  /\ rows' = [rows EXCEPT ![ri + 1] =
                         [process |-> row.process, send_to |-> row.send_to,
                          recv_from |-> row.recv_from, send_chunk |-> row.send_chunk,
                          send_label |-> row.send_label, bytes_sent |-> row.bytes_sent,
                          recv_chunk |-> ChunkName(recv_idx),
                          recv_label |-> format_chunk(chunk),
                          bytes_recv |-> chunk_bytes,
                          data_held |-> summarize_holdings(holdings'[r])]]
                  /\ ri' = IF ri + 1 < Len(rows) THEN ri + 1 ELSE 0
                  /\ pc' = IF ri + 1 < Len(rows) THEN "rs_recv" ELSE "rs_render"
                  /\ error' = error
    /\ UNCHANGED <<inputVars, swingVars, chunk_bytes, ag_holdings, step, rendered,
                   round_start, phase1>>

\* render_step(...) closes the round, line 212; then the next round begins or
\* the loop of line 169 ends
RSRender ==
    /\ pc = "rs_render"
    /\ rendered' = Append(rendered, [phase |-> "Reduce-Scatter", round |-> step, rows |-> rows])
    /\ step' = step + 1
    /\ transmissions' = EmptyDict
    /\ rows' = <<>>
    /\ round_start' = [holdings |-> holdings, last_received |-> last_received]
    /\ pc' = IF step + 1 < processes - 1 THEN "rs_send" ELSE "rs_return"
    /\ UNCHANGED <<inputVars, swingVars, error, chunk_bytes, holdings, last_received,
                   ag_holdings, ri, phase1>>

\* `return holdings, last_received` (line 214), main's call of line 296, and
\* simulate_allgather's lines 224-228 with the entry of its round loop
AGCall ==
    /\ pc = "rs_return"
    /\ phase1' = [holdings |-> holdings, last_received |-> last_received]
    /\ IF processes = 0
       THEN /\ pc' = "error"
            /\ error' = "ZeroDivisionError"
            /\ UNCHANGED <<chunk_bytes, ag_holdings, step, ri, transmissions, rows,
                           round_start>>
       ELSE /\ chunk_bytes' = FloorDiv(vector_size, processes)
            /\ ag_holdings' = DeepCopyHoldings(holdings)
            /\ step' = 0
            /\ ri' = 0
            /\ transmissions' = EmptyDict
            /\ rows' = <<>>
            /\ round_start' = [holdings |-> ag_holdings', last_received |-> last_received]
            /\ pc' = IF 0 < processes - 1 THEN "ag_send" ELSE "main_done"
            /\ error' = error
    /\ UNCHANGED <<inputVars, swingVars, holdings, last_received, rendered>>

\* mutant: one loop instead of two, each send delivered to its destination
\* before the next process computes its own send
AGSendInterleaved ==
    /\ pc = "ag_send"
    /\ LET r == ri
           send_to == PyMod(r + 1, processes)
           recv_from == PyMod(r - 1 + processes, processes)
           send_idx == last_received[r]
           chunk == ag_holdings[r][send_idx]
       IN /\ transmissions' = DictSet(transmissions, send_to,
                 [sender |-> r, chunk_idx |-> send_idx, chunk |-> chunk])
          /\ rows' = Append(rows,
                 [process |-> r, send_to |-> send_to, recv_from |-> recv_from,
                  send_chunk |-> ChunkName(send_idx),
                  send_label |-> format_chunk(chunk),
                  bytes_sent |-> chunk_bytes])
          /\ ag_holdings' = [ag_holdings EXCEPT ![send_to] =
                 IF send_idx \notin DOMAIN @ THEN DictSet(@, send_idx, chunk) ELSE @]
          /\ last_received' = [last_received EXCEPT ![send_to] = send_idx]
          /\ ri' = IF ri + 1 < processes THEN ri + 1 ELSE 0
          /\ pc' = IF ri + 1 < processes THEN "ag_send" ELSE "ag_recv"
    /\ UNCHANGED <<inputVars, swingVars, error, chunk_bytes, holdings, step, rendered,
                   round_start, phase1>>

\* one iteration of the send loop of allgather, lines 234-254
AGSend ==
    /\ pc = "ag_send"
    /\ LET r == ri
           send_to == PyMod(r + 1, processes)
           recv_from == PyMod(r - 1 + processes, processes)
       IN IF r \notin DOMAIN last_received
             \/ r \notin DOMAIN ag_holdings
             \/ last_received[r] \notin DOMAIN ag_holdings[r]
          THEN /\ pc' = "error"
               /\ error' = "KeyError"
               /\ UNCHANGED <<transmissions, rows, ri>>
          ELSE LET send_idx == last_received[r]
                   chunk == ag_holdings[r][send_idx]
               IN \* copy.deepcopy(chunk): the transmission holds a value of its own
                  /\ transmissions' = DictSet(transmissions, send_to,
                         [sender |-> r, chunk_idx |-> send_idx, chunk |-> chunk])
                  /\ rows' = Append(rows,
                         [process |-> r, send_to |-> send_to, recv_from |-> recv_from,
                          send_chunk |-> ChunkName(send_idx),
                          send_label |-> format_chunk(chunk),
                          bytes_sent |-> chunk_bytes])
                  /\ ri' = IF ri + 1 < processes THEN ri + 1 ELSE 0
                  /\ pc' = IF ri + 1 < processes THEN "ag_send" ELSE "ag_recv"
                  /\ error' = error
    /\ UNCHANGED <<inputVars, swingVars, chunk_bytes, holdings, last_received,
                   ag_holdings, step, rendered, round_start, phase1>>

\* mutant: the membership test inverted
AGInsertInverted(ledger, recv_idx, recv_chunk) ==
    IF recv_idx \in DOMAIN ledger THEN DictSet(ledger, recv_idx, recv_chunk) ELSE ledger

\* the ledger of a process after an allgather receive, lines 262-263
AGInsert(ledger, recv_idx, recv_chunk) ==
    IF recv_idx \notin DOMAIN ledger THEN DictSet(ledger, recv_idx, recv_chunk) ELSE ledger

\* one iteration of the receive loop of allgather, lines 256-273
AGRecv ==
    /\ pc = "ag_recv"
    /\ LET row == rows[ri + 1]
           r == row.process
       IN IF r \notin DOMAIN transmissions
          THEN /\ pc' = "error"
               /\ error' = "KeyError"
               /\ UNCHANGED <<ag_holdings, last_received, rows, ri>>
          ELSE LET incoming == transmissions[r]
                   recv_chunk == incoming.chunk
                   recv_idx == incoming.chunk_idx
               IN /\ ag_holdings' = [ag_holdings EXCEPT ![r] = AGInsert(@, recv_idx, recv_chunk)]
                  /\ last_received' = [last_received EXCEPT ![r] = recv_idx]
                  /\ rows' = [rows EXCEPT ![ri + 1] =
                         [process |-> row.process, send_to |-> row.send_to,
                          recv_from |-> row.recv_from, send_chunk |-> row.send_chunk,
                          send_label |-> row.send_label, bytes_sent |-> row.bytes_sent,
                          recv_chunk |-> ChunkName(recv_idx),
                          recv_label |-> format_chunk(recv_chunk),
                          bytes_recv |-> chunk_bytes,
                          data_held |-> summarize_holdings(ag_holdings'[r])]]
                  /\ ri' = IF ri + 1 < Len(rows) THEN ri + 1 ELSE 0
                  /\ pc' = IF ri + 1 < Len(rows) THEN "ag_recv" ELSE "ag_render"
                  /\ error' = error
    /\ UNCHANGED <<inputVars, swingVars, chunk_bytes, holdings, transmissions, step,
                   rendered, round_start, phase1>>

\* render_step(...) closes the allgather round, line 275; then the next round
\* begins or simulate_allgather and main return
AGRender ==
    /\ pc = "ag_render"
    /\ rendered' = Append(rendered, [phase |-> "Allgather", round |-> step, rows |-> rows])
    /\ step' = step + 1
    /\ transmissions' = EmptyDict
    /\ rows' = <<>>
    /\ round_start' = [holdings |-> ag_holdings, last_received |-> last_received]
    /\ pc' = IF step + 1 < processes - 1 THEN "ag_send" ELSE "main_done"
    /\ UNCHANGED <<inputVars, swingVars, error, chunk_bytes, holdings, last_received,
                   ag_holdings, ri, phase1>>

(***************************************************************************)
(* swing_heatmap.py                                                        *)
(***************************************************************************)
\* the loop of rho from i on: += (1 << i) if i % 2 == 0 else -(1 << i)
RECURSIVE RhoLoop(_, _)
RhoLoop(i, st) ==
    IF i > st THEN 0
    ELSE (IF i % 2 = 0 THEN 2^i ELSE 0 - 2^i) + RhoLoop(i + 1, st)

\* mutant: range(step) instead of range(step + 1)
rhoShort(st) == RhoLoop(0, st - 1)

rho(st) == RhoLoop(0, st)

\* mutant: the offset added for every rank, odd ones too
piNoParity(rank, st, world_size) ==
    LET offset == rho(st)
    IN PyMod(rank + offset, world_size)

pi(rank, st, world_size) ==
    LET offset == rho(st)
    IN IF PyMod(rank, 2) = 0
       THEN PyMod(rank + offset, world_size)
       ELSE PyMod(rank - offset, world_size)

\* mutant: the floor of log2 for every world size
swing_stepsFloor(world_size) ==
    IF world_size < 2 THEN 0 ELSE IntLog2(world_size)

swing_steps(world_size) ==
    IF world_size < 2 THEN 0
    ELSE IF BitAnd(world_size, world_size - 1) = 0
         THEN IntLog2(world_size)
         ELSE IntLog2(world_size) + 1

\* The matrix holds floats; every value build_matrix stores is vector_size
\* times a multiple of 2^-steps, which a float holds exactly.  The model
\* keeps each cell as an integer count of 1/Scale bytes.
Scale == 2^swing_steps(MaxProcs)

\* an int as a cell value
Float(n) == n * Scale

\* a / b (true division) for b a power of two dividing Scale
TrueDiv(a, b) == (a * Scale) \div b

\* np.zeros((n, n), dtype=float), n >= 0
Zeros(n) == [shape |-> <<n, n>>, cells |-> [c \in Range(n) \X Range(n) |-> 0]]

\* the loop of accumulate_step from rank on: matrix[rank, peer] += bytes_per_send
RECURSIVE AccumulateLoop(_, _, _, _, _)
AccumulateLoop(m, world_size, st, bytes_per_send, rank) ==
    IF rank >= world_size THEN m
    ELSE LET peer == pi(rank, st, world_size)
         IN AccumulateLoop([m EXCEPT !.cells[<<rank, peer>>] = @ + bytes_per_send],
                           world_size, st, bytes_per_send, rank + 1)

accumulate_step(m, world_size, st, bytes_per_send) ==
    AccumulateLoop(m, world_size, st, bytes_per_send, 0)

\* build_matrix, lines 53-56: the matrix, the round count and the choice of
\* the branch
BMCall ==
    /\ pc = "build_matrix"
    /\ IF processes < 0
       THEN \* np.zeros: negative dimensions are not allowed
            /\ pc' = "error"
            /\ error' = "ValueError"
            /\ UNCHANGED swingVars
       ELSE /\ matrix' = Zeros(processes)
            /\ steps' = swing_steps(processes)
            /\ s' = 0
            /\ error' = error
            /\ pc' = IF variant = "bandwidth"
                     THEN (IF 0 < steps' THEN "bm_reduce_scatter" ELSE "bm_return")
                     ELSE (IF 0 < steps' THEN "bm_latency" ELSE "bm_return")
    /\ UNCHANGED <<inputVars, ringVars>>

\* one iteration of the first loop of the bandwidth branch, lines 57-59
BMReduceScatter ==
    /\ pc = "bm_reduce_scatter"
    /\ LET data_size == TrueDiv(vector_size, 2^(s + 1))
       IN matrix' = accumulate_step(matrix, processes, s, data_size)
    /\ s' = IF s + 1 < steps THEN s + 1 ELSE steps - 1
    /\ pc' = IF s + 1 < steps THEN "bm_reduce_scatter" ELSE "bm_allgather"
    /\ UNCHANGED <<inputVars, ringVars, error, steps>>

\* mutant: the allgather payload shifted by s instead of s + 1
BMAllgatherShifted ==
    /\ pc = "bm_allgather"
    /\ LET data_size == TrueDiv(vector_size, 2^s)
       IN matrix' = accumulate_step(matrix, processes, s, data_size)
    /\ s' = IF s - 1 > 0 - 1 THEN s - 1 ELSE s
    /\ pc' = IF s - 1 > 0 - 1 THEN "bm_allgather" ELSE "bm_return"
    /\ UNCHANGED <<inputVars, ringVars, error, steps>>

\* one iteration of the second loop of the bandwidth branch, lines 60-62
BMAllgather ==
    /\ pc = "bm_allgather"
    /\ LET data_size == TrueDiv(vector_size, 2^(s + 1))
       IN matrix' = accumulate_step(matrix, processes, s, data_size)
    /\ s' = IF s - 1 > 0 - 1 THEN s - 1 ELSE s
    /\ pc' = IF s - 1 > 0 - 1 THEN "bm_allgather" ELSE "bm_return"
    /\ UNCHANGED <<inputVars, ringVars, error, steps>>

\* one iteration of the loop of the else branch, lines 63-65
BMLatency ==
    /\ pc = "bm_latency"
    /\ matrix' = accumulate_step(matrix, processes, s, Float(vector_size))
    /\ s' = IF s + 1 < steps THEN s + 1 ELSE s
    /\ pc' = IF s + 1 < steps THEN "bm_latency" ELSE "bm_return"
    /\ UNCHANGED <<inputVars, ringVars, error, steps>>

\* return matrix, line 67
BMReturn ==
    /\ pc = "bm_return"
    /\ pc' = "bm_done"
    /\ UNCHANGED <<inputVars, ringVars, swingVars, error>>

Next ==
    \/ RSCall \/ RSSend \/ RSRecv \/ RSRender
    \/ AGCall \/ AGSend \/ AGRecv \/ AGRender
    \/ BMCall \/ BMReduceScatter \/ BMAllgather \/ BMLatency \/ BMReturn

Spec == Init /\ [][Next]_vars

(***************************************************************************)
(* Properties of the ring phases.                                          *)
(***************************************************************************)
\* the full rank set {0, ..., worldSize-1}
AllRanks == 0..(processes - 1)

RSPhase == pc \in {"rs_send", "rs_recv", "rs_render"}
AGPhase == pc \in {"ag_send", "ag_recv", "ag_render"}

\* C1: ring reduce-scatter, worldSize >= 2: after all worldSize-1 rounds the
\* chunk in r's ledger at index lastReceivedIndex[r] has the full rank set as
\* its contributor set, for every process r.
C1_ReduceScatterFullyReduced ==
    (pc = "rs_return" /\ processes >= 2) =>
        /\ Len(rendered) = processes - 1
        /\ \A r \in AllRanks :
              /\ last_received[r] \in DOMAIN holdings[r]
              /\ holdings[r][last_received[r]].contributors = AllRanks

C1_Witness ==
    /\ pc = "rs_return"
    /\ processes >= 4
    /\ Len(rendered) = processes - 1
    /\ \A r \in AllRanks : holdings[r][last_received[r]].contributors = AllRanks

\* C2: ring allgather run on the output of reduce-scatter, worldSize >= 2:
\* after its worldSize-1 rounds every ledger has exactly worldSize entries,
\* one per chunk index in [0, worldSize), each with the full contributor set.
C2_AllgatherComplete ==
    (pc = "main_done" /\ processes >= 2) =>
        /\ Len(rendered) = 2 * (processes - 1)
        /\ DOMAIN ag_holdings = AllRanks
        /\ \A r \in AllRanks :
              /\ DOMAIN ag_holdings[r] = AllRanks
              /\ Cardinality(DOMAIN ag_holdings[r]) = processes
              /\ \A k \in AllRanks : ag_holdings[r][k].contributors = AllRanks

C2_Witness ==
    /\ pc = "main_done"
    /\ processes >= 4
    /\ \A r \in AllRanks : DOMAIN ag_holdings[r] = AllRanks

\* the keys of a ledger whose chunk is fully reduced
FullyReduced(ledger) == {k \in DOMAIN ledger : ledger[k].contributors = AllRanks}

\* C3: at the end of reduce-scatter, worldSize >= 2, each process owns exactly
\* one fully-reduced chunk, the one at lastReceivedIndex[r], and
\* r -> lastReceivedIndex[r] is a bijection on [0, worldSize).
C3_DistinctFragments ==
    (pc = "rs_return" /\ processes >= 2) =>
        /\ \A r \in AllRanks : FullyReduced(holdings[r]) = {last_received[r]}
        /\ DOMAIN last_received = AllRanks
        /\ \A r \in AllRanks : last_received[r] \in AllRanks
        /\ \A r1, r2 \in AllRanks : last_received[r1] = last_received[r2] => r1 = r2
        /\ {last_received[r] : r \in AllRanks} = AllRanks

C3_Witness ==
    /\ pc = "rs_return"
    /\ processes >= 3
    /\ \A r \in AllRanks : Cardinality(FullyReduced(holdings[r])) = 1
    /\ \E r \in AllRanks : last_received[r] # r

\* C4: after simulate_allgather has run, the ledgers and the lastReceivedIndex
\* map its caller passed in are as they were at the call.
C4_AllgatherLeavesInputs ==
    (AGPhase \/ pc = "main_done") =>
        /\ holdings = phase1.holdings
        /\ last_received = phase1.last_received

\* the part of C4 the code keeps: the ledgers passed in are never touched
C4_LedgersKept ==
    (AGPhase \/ pc = "main_done") => holdings = phase1.holdings

\* C5: in every round of both phases what process r sends (chunk index and
\* contributor set) is read from the ledgers and lastReceivedIndex as they
\* were when the round began; no send sees a receive of its own round.
C5_SendsReadRoundStart ==
    (RSPhase \/ AGPhase) =>
        \A i \in 1..Len(rows) :
            LET row == rows[i]
                r == row.process
                start_ledger == round_start.holdings[r]
                idx == IF RSPhase THEN (r - step) % processes
                                  ELSE round_start.last_received[r]
            IN /\ idx \in DOMAIN start_ledger
               /\ row.send_chunk = <<"C", idx>>
               /\ row.send_label = format_chunk(start_ledger[idx])
               /\ row.send_to \in DOMAIN transmissions
               /\ transmissions[row.send_to].sender = r
               /\ transmissions[row.send_to].chunk_idx = idx
               /\ AGPhase => transmissions[row.send_to].chunk = start_ledger[idx]

\* a later round of allgather in which some receives are applied and the
\* ledgers differ from the ones the round began with
C5_Witness ==
    /\ pc = "ag_recv"
    /\ step >= 1
    /\ ri >= 2
    /\ Len(rows) = processes
    /\ last_received # round_start.last_received
    /\ ag_holdings # round_start.holdings

\* every copy of chunk k the simulation holds: in a ledger or in flight
Copies(k) ==
    {holdings[r][k] : r \in {x \in DOMAIN holdings : k \in DOMAIN holdings[x]}}
    \cup {ag_holdings[r][k] : r \in {x \in DOMAIN ag_holdings : k \in DOMAIN ag_holdings[x]}}
    \cup {transmissions[d].chunk :
             d \in {x \in DOMAIN transmissions : transmissions[x].chunk_idx = k}}

\* C6: a chunk's contributor set only grows.  Over every step: an entry that
\* stays in a ledger keeps or extends its contributors; an allgather ledger
\* never loses or replaces an entry; and every copy of a chunk after the step
\* contains the contributors of a copy that existed before it.
C6_ContributorsOnlyGrow ==
    [][ /\ \A r \in DOMAIN holdings : \A k \in DOMAIN holdings[r] :
              (r \in DOMAIN holdings' /\ k \in DOMAIN holdings'[r]) =>
                  holdings[r][k].contributors \subseteq holdings'[r][k].contributors
        /\ \A r \in DOMAIN ag_holdings : \A k \in DOMAIN ag_holdings[r] :
              /\ r \in DOMAIN ag_holdings'
              /\ k \in DOMAIN ag_holdings'[r]
              /\ ag_holdings'[r][k] = ag_holdings[r][k]
        /\ \A k \in 0..(processes - 1) :
              Copies(k) # {} =>
                  \A c \in Copies(k)' : \E b \in Copies(k) :
                      b.contributors \subseteq c.contributors
      ]_vars

\* a merge has happened: some ledger holds a chunk combined from three ranks
C6_Witness ==
    /\ pc = "rs_recv"
    /\ \E r \in DOMAIN holdings : \E k \in DOMAIN holdings[r] :
          Cardinality(holdings[r][k].contributors) >= 3

(***************************************************************************)
(* Properties of argument handling.                                        *)
(***************************************************************************)
\* C7: build_matrix called with a variant other than "bandwidth" or "latency"
\* signals an invalid argument and returns no matrix.
C7_UnknownVariantRejected ==
    (variant \notin {"bandwidth", "latency", "n/a"}) =>
        /\ pc \in {"build_matrix", "error"}
        /\ matrix = Unbound

\* C8: a non-positive worldSize or a negative vectorSize is rejected before
\* any simulation state is created: the call ends in an error and there is
\* no matrix, no ledger and no round record.
C8_InvalidInputRejected ==
    (processes <= 0 \/ vector_size < 0) =>
        /\ pc \in {"main_torus", "build_matrix", "error"}
        /\ holdings = EmptyDict
        /\ ag_holdings = EmptyDict
        /\ matrix = Unbound
        /\ rendered = <<>>

(***************************************************************************)
(* Properties of the Swing schedule.                                       *)
(***************************************************************************)
BMPhase == pc \in {"bm_reduce_scatter", "bm_allgather", "bm_latency", "bm_return", "bm_done"}

\* (-2)^i
RECURSIVE NegTwoPow(_)
NegTwoPow(i) == IF i = 0 THEN 1 ELSE (0 - 2) * NegTwoPow(i - 1)

\* distance(round) = sum over i = 0..round of (-2)^i
RECURSIVE Distance(_)
Distance(round) == IF round = 0 THEN 1 ELSE Distance(round - 1) + NegTwoPow(round)

\* x mod n as mathematics has it: the m in [0, n) with n dividing x - m
MathMod(x, n) ==
    CHOOSE m \in 0..(n - 1) : \E q \in (0 - 2^(MaxRound + 2))..(2^(MaxRound + 2)) : x = q * n + m

\* C9: for worldSize >= 1, rank in [0, worldSize) and round >= 0 the partner is
\* (rank + distance(round)) mod worldSize for an even rank and
\* (rank - distance(round)) mod worldSize for an odd one, distance being
\* 1, -1, 3, -5, ..., with the mathematical modulo: always in [0, worldSize).
C9_PartnerFormula ==
    (BMPhase /\ processes >= 1) =>
        /\ <<rho(0), rho(1), rho(2), rho(3)>> = <<1, 0 - 1, 3, 0 - 5>>
        /\ \A rank \in 0..(processes - 1) : \A round \in 0..MaxRound :
              /\ rho(round) = Distance(round)
              /\ pi(rank, round, processes) \in 0..(processes - 1)
              /\ pi(rank, round, processes) =
                    IF rank % 2 = 0
                    THEN MathMod(rank + Distance(round), processes)
                    ELSE MathMod(rank - Distance(round), processes)

\* the latency schedule has run rounds whose offsets take rank 0 and rank 1
\* below zero, and the bytes went to the wrapped partners
C9_Witness ==
    /\ pc = "bm_done"
    /\ variant = "latency"
    /\ processes = 6
    /\ vector_size > 0
    /\ 0 + rho(1) < 0
    /\ 1 - rho(2) < 0
    /\ matrix.cells[<<0, 5>>] > 0
    /\ matrix.cells[<<1, 4>>] > 0

\* roundCount(worldSize): 0 below 2, else the least k with 2^k >= worldSize
RoundCount(world_size) ==
    IF world_size < 2 THEN 0
    ELSE CHOOSE k \in 0..world_size : 2^k >= world_size /\ (k = 0 \/ 2^(k - 1) < world_size)

RowSum(m, i) ==
    LET RECURSIVE Sum(_)
        Sum(j) == IF j < 0 THEN 0 ELSE m.cells[<<i, j>>] + Sum(j - 1)
    IN Sum(processes - 1)

\* C10: latency variant, worldSize >= 1, vectorSize >= 0: every rank sends
\* vectorSize bytes in each round, so every row of the matrix sums to
\* vectorSize * roundCount(worldSize).
C10_LatencyRowSums ==
    (variant = "latency" /\ processes >= 1 /\ vector_size >= 0) =>
        /\ pc = "bm_latency" =>
              \A i \in 0..(processes - 1) : RowSum(matrix, i) = (vector_size * s) * Scale
        /\ pc \in {"bm_return", "bm_done"} =>
              \A i \in 0..(processes - 1) :
                  RowSum(matrix, i) = (vector_size * RoundCount(processes)) * Scale

C10_Witness ==
    /\ pc = "bm_done"
    /\ variant = "latency"
    /\ processes = 6
    /\ vector_size >= 2
    /\ steps = 3
    /\ \A i \in 0..(processes - 1) : RowSum(matrix, i) = (vector_size * 3) * Scale

\* the bytes rank i sends to rank j in the rounds of T, each round with the
\* payload vectorSize / 2^(round+1): a sum over a set of rounds, in which no
\* order of rounds or ranks enters
RECURSIVE HalvedBytes(_, _, _)
HalvedBytes(i, j, T) ==
    IF T = {} THEN 0
    ELSE LET t == CHOOSE x \in T : TRUE
         IN (IF pi(i, t, processes) = j THEN (vector_size * Scale) \div 2^(t + 1) ELSE 0)
            + HalvedBytes(i, j, T \ {t})

\* C11: bandwidth variant, vectorSize divisible by 2^roundCount: the allgather
\* pass repeats the partner and the payload vectorSize / 2^(round+1) of every
\* round of the reduce-scatter pass, from the last round to the first, so each
\* cell of the returned matrix is twice what the forward pass alone adds up,
\* a whole number of bytes, whatever the order of accumulation.
C11_BandwidthTwiceForward ==
    (variant = "bandwidth" /\ processes >= 1 /\ vector_size >= 0
        /\ vector_size % 2^RoundCount(processes) = 0) =>
        \A i, j \in 0..(processes - 1) :
            LET forward == HalvedBytes(i, j, 0..(RoundCount(processes) - 1))
            IN /\ pc = "bm_reduce_scatter" =>
                    matrix.cells[<<i, j>>] = HalvedBytes(i, j, 0..(s - 1))
               /\ pc = "bm_allgather" =>
                    matrix.cells[<<i, j>>] = forward + HalvedBytes(i, j, (s + 1)..(steps - 1))
               /\ pc \in {"bm_return", "bm_done"} =>
                    /\ matrix.cells[<<i, j>>] = 2 * forward
                    /\ forward % Scale = 0

\* three rounds on eight ranks, eight bytes: rank 0 sent 2 * 4 bytes to rank
\* 1, 2 * 2 to rank 7 and 2 * 1 to rank 3
C11_Witness ==
    /\ pc = "bm_done"
    /\ variant = "bandwidth"
    /\ processes = 8
    /\ vector_size = 8
    /\ steps = 3
    /\ matrix.cells[<<0, 1>>] = 8 * Scale
    /\ matrix.cells[<<0, 7>>] = 4 * Scale
    /\ matrix.cells[<<0, 3>>] = 2 * Scale

(***************************************************************************)
(* The degenerate ring and the ledger keys.                                *)
(***************************************************************************)
\* the ledgers of a single process that holds its own chunk
SoloLedgers == 0 :> (0 :> [idx |-> 0, contributors |-> {0}])

\* C12: worldSize = 1 is valid and runs zero rounds everywhere: no error;
\* roundCount(1) = 0 and build_matrix returns a 1x1 zero matrix; reduce-scatter
\* and allgather emit no round record; process 0's ledger ends as the single
\* chunk 0 with contributor set {0}, the full rank set.
C12_SingleProcess ==
    processes = 1 =>
        /\ pc # "error" /\ error = ""
        /\ rendered = <<>>
        /\ ~RSPhase /\ ~AGPhase
        /\ pc \notin {"bm_reduce_scatter", "bm_allgather", "bm_latency"}
        /\ pc \in {"bm_return", "bm_done"} =>
              /\ steps = 0
              /\ swing_steps(processes) = 0
              /\ matrix = [shape |-> <<1, 1>>, cells |-> (<<0, 0>> :> 0)]
        /\ pc \in {"rs_return", "main_done"} =>
              /\ holdings = SoloLedgers
              /\ last_received = (0 :> 0)
              /\ holdings[0][0].contributors = AllRanks
        /\ pc = "main_done" => ag_holdings = SoloLedgers

\* the ring script has finished a run on one process
C12_Witness ==
    /\ processes = 1
    /\ pc = "main_done"
    /\ vector_size > 0
    /\ rendered = <<>>
    /\ ag_holdings = SoloLedgers

\* every entry of every ledger in ledgers is stored under its chunk's idx
KeysMatch(ledgers) ==
    \A r \in DOMAIN ledgers : \A k \in DOMAIN ledgers[r] : ledgers[r][k].idx = k

\* C13: every ledger entry stored under key k is a chunk whose idx is k, in
\* every state of both phases.  In reduce-scatter round s the key
\* (r - s - 1) mod worldSize under which r stores the incoming chunk is the
\* index of the chunk (r - 1) mod worldSize sent in that round, and the chunk
\* (r - s) mod worldSize that r must send is in r's ledger when the round
\* begins.
C13_KeysMatchChunks ==
    /\ KeysMatch(holdings)
    /\ KeysMatch(ag_holdings)
    /\ error # "KeyError"
    /\ (pc = "rs_send" /\ ri = 0) =>
          \A r \in AllRanks : (r - step) % processes \in DOMAIN holdings[r]
    /\ pc = "rs_send" =>
          \A r \in ri..(processes - 1) : (r - step) % processes \in DOMAIN holdings[r]
    /\ pc \in {"rs_recv", "rs_render"} =>
          \A r \in AllRanks :
              LET incoming == transmissions[r]
              IN /\ incoming.sender = (r - 1) % processes
                 /\ incoming.chunk_idx = (r - step - 1) % processes
                 /\ incoming.chunk.idx = (r - step - 1) % processes
                 /\ incoming.chunk_idx = (incoming.sender - step) % processes

\* a later round of reduce-scatter with some chunks stored and some to store
C13_Witness ==
    /\ pc = "rs_recv"
    /\ step >= 1
    /\ ri >= 1
    /\ processes >= 3
    /\ \E r \in AllRanks : DOMAIN holdings[r] = {(r - step - 1) % processes}
    /\ \E r \in AllRanks : DOMAIN holdings[r] = {}
    /\ KeysMatch(holdings)

(***************************************************************************)
(* The Swing pairing.                                                      *)
(***************************************************************************)
ColSum(m, j) ==
    LET RECURSIVE Sum(_)
        Sum(i) == IF i < 0 THEN 0 ELSE m.cells[<<i, j>>] + Sum(i - 1)
    IN Sum(processes - 1)

\* C14: for an even worldSize >= 2, every round s below roundCount and every
\* rank r, the partner of the partner of r is r and the partner of r is not
\* r; so the matrix of either variant is symmetric cell by cell, has a zero
\* diagonal, and every column sums to what its row sums to.
C14_PairingSymmetric ==
    (BMPhase /\ processes >= 2 /\ processes % 2 = 0) =>
        /\ steps = RoundCount(processes)
        /\ \A r \in 0..(processes - 1) : \A round \in 0..(RoundCount(processes) - 1) :
              /\ pi(pi(r, round, processes), round, processes) = r
              /\ pi(r, round, processes) # r
        /\ variant \in {"bandwidth", "latency"} =>
              /\ \A i, j \in 0..(processes - 1) :
                    matrix.cells[<<i, j>>] = matrix.cells[<<j, i>>]
              /\ \A i \in 0..(processes - 1) :
                    /\ matrix.cells[<<i, i>>] = 0
                    /\ ColSum(matrix, i) = RowSum(matrix, i)

\* six ranks, three rounds of the bandwidth variant: rank 0 and rank 3
\* exchanged the smallest payload, twice
C14_Witness ==
    /\ pc = "bm_done"
    /\ variant = "bandwidth"
    /\ processes = 6
    /\ vector_size = 8
    /\ pi(0, 2, 6) = 3 /\ pi(3, 2, 6) = 0
    /\ matrix.cells[<<0, 3>>] = 2 * Scale
    /\ matrix.cells[<<3, 0>>] = 2 * Scale
====
